---- MODULE Spec2Model ----
(***************************************************************************)
(* scripts/etl.py: the Extract / Transform / Load job.  main() reads three *)
(* CSV files into data frames, cleans a copy of each with clean_data() and *)
(* writes the three cleaned frames into an SQLite file with                *)
(* to_sql(if_exists='replace').                                            *)
(*                                                                         *)
(* Data frames are objects on a heap (frames), named by the locals of      *)
(* main (raw, cleaned).  A frame is a sequence of columns; a column is a   *)
(* name (a sequence of characters), a dtype and a sequence of cells.       *)
(* Text is modelled character by character so that lower(), replace(),     *)
(* astype(str) and strip() are computed, not assumed.                      *)
(***************************************************************************)
EXTENDS Integers, Sequences, FiniteSets, TLC

VARIABLES
    keepsNA,     \* the pandas build: TRUE when astype(str) keeps a missing entry missing
    exists,      \* input file -> whether its path exists
    csv,         \* input file -> the frame read_csv parses from it
    store,       \* the SQLite file: table name -> table, or NoTable
    storeAtStart,\* the SQLite file as it was when the current run started
    frames,      \* heap of data frames: id -> frame (NoFrame when unallocated)
    raw,         \* main's crop_df, normal_rainfall_df, monthly_rainfall_df (ids, 0 unbound)
    cleaned,     \* main's crop_df_clean, normal_df_clean, monthly_rainfall_clean
    arg,         \* id of the frame handed to the latest clean_data call
    argBefore,   \* that frame's value when the call was made
    ret,         \* id the latest clean_data call returned (0: none, or it raised)
    firstResult, \* value clean_data returned the first time it was applied
    calls,       \* number of clean_data calls that returned
    pc,          \* position in main / in the clean_data harness
    idx,         \* which of the three data sets the current step works on
    conn,        \* the sqlite3 connection: "none", "open", "closed"
    view,        \* what the connection sees: the file plus uncommitted changes
    exc,         \* an exception is propagating out of the with block
    failedAt,    \* index of the table whose write raised (0: none)
    events,      \* the calls of this run that returned, in order
    outcome,     \* how the current run ended
    run,         \* number of the current run of the job
    firstLoad    \* the three tables as the first complete run left them

vars == << keepsNA, exists, csv, store, storeAtStart, frames, raw, cleaned, arg,
           argBefore, ret, firstResult, calls, pc, idx, conn, view, exc,
           failedAt, events, outcome, run, firstLoad >>

----------------------------------------------------------------------------
(* Bounds of the model *)

MaxRows == 2
MaxCols == 2
MaxRuns == 2

----------------------------------------------------------------------------
(* Cells, text and columns *)

NaN == [k |-> "nan", n |-> 0, s |-> << >>]
Num(i) == [k |-> "num", n |-> i, s |-> << >>]
Str(chars) == [k |-> "str", n |-> 0, s |-> chars]

IsMissing(cell) == cell.k = "nan"

Unknown == << "U", "n", "k", "n", "o", "w", "n" >>
NanText == << "n", "a", "n" >>

\* str.lower() on one character
LowerChar(c) ==
    CASE c = "A" -> "a"
      [] c = "B" -> "b"
      [] c = "C" -> "c"
      [] OTHER -> c

\* .str.lower().str.replace(' ', '_') on one column name
NormalizeName(name) ==
    [i \in 1..Len(name) |-> IF LowerChar(name[i]) = " " THEN "_" ELSE LowerChar(name[i])]

IsSpace(c) == c \in {" ", "\t", "\n"}

RECURSIVE LStrip(_)
LStrip(chars) ==
    IF chars # << >> /\ IsSpace(Head(chars)) THEN LStrip(Tail(chars)) ELSE chars

RECURSIVE RStrip(_)
RStrip(chars) ==
    IF chars # << >> /\ IsSpace(chars[Len(chars)])
    THEN RStrip(SubSeq(chars, 1, Len(chars) - 1))
    ELSE chars

\* Python's str.strip()
Strip(chars) == RStrip(LStrip(chars))

\* str() of a non-negative integer below 10
Digits(i) == << CASE i = 0 -> "0" [] i = 1 -> "1" [] i = 2 -> "2" [] i = 3 -> "3"
                  [] OTHER -> "9" >>

\* a bug: repr() where str() is meant, which quotes text
AstypeRepr(cell, keeps) ==
    CASE cell.k = "str" -> Str(<< "'" >> \o cell.s \o << "'" >>)
      [] cell.k = "num" -> Str(Digits(cell.n))
      [] OTHER -> IF keeps THEN NaN ELSE Str(NanText)

\* Series.astype(str) on one cell.  Up to pandas 2 a missing entry becomes the
\* text 'nan'; from pandas 3 it stays missing.
AstypeStr(cell, keeps) ==
    CASE cell.k = "str" -> cell
      [] cell.k = "num" -> Str(Digits(cell.n))
      [] OTHER -> IF keeps THEN NaN ELSE Str(NanText)

\* Series.str.strip() on one cell: a cell that is not text stays missing
StrStrip(cell) == IF cell.k = "str" THEN Str(Strip(cell.s)) ELSE NaN

\* Series.fillna(value) on one cell
FillNa(cell, value) == IF IsMissing(cell) THEN value ELSE cell

\* pd.api.types.is_numeric_dtype
IsNumericDtype(dtype) == dtype \in {"int64", "float64", "bool"}

\* dtype of the Series astype(str) returns
TextDtype(keeps) == IF keeps THEN "str" ELSE "object"

\* a bug: the numeric branch without its fillna
CleanNumericNoFill(col, keeps) == col

\* clean_data's numeric branch on one column
CleanNumeric(col, keeps) ==
    [col EXCEPT !.vals = [i \in 1..Len(col.vals) |-> FillNa(col.vals[i], Num(0))]]

\* clean_data's text branch on one column
CleanText(col, keeps) ==
    [col EXCEPT
        !.dtype = TextDtype(keeps),
        !.vals = [i \in 1..Len(col.vals) |->
                    FillNa(StrStrip(AstypeStr(col.vals[i], keeps)), Str(Unknown))]]

CleanColumn(col, keeps) ==
    IF IsNumericDtype(col.dtype) THEN CleanNumeric(col, keeps) ELSE CleanText(col, keeps)

\* df[col] is a DataFrame, not a Series, when the label occurs more than once
IsDuplicated(frame, j) ==
    \E m \in 1..Len(frame) : m # j /\ frame[m].name = frame[j].name

\* df.columns = ... : every label normalised
Renamed(frame) ==
    [j \in 1..Len(frame) |-> [frame[j] EXCEPT !.name = NormalizeName(frame[j].name)]]

\* the for loop of clean_data from column j on.  On a duplicated label the text
\* branch is taken on a DataFrame and .str raises AttributeError; the columns
\* before it stay cleaned.
RECURSIVE CleanFrom(_, _, _)
CleanFrom(frame, j, keeps) ==
    IF j > Len(frame) THEN [frame |-> frame, raised |-> FALSE]
    ELSE IF IsDuplicated(frame, j) THEN [frame |-> frame, raised |-> TRUE]
    ELSE CleanFrom([frame EXCEPT ![j] = CleanColumn(frame[j], keeps)], j + 1, keeps)

\* clean_data(df) on the heap: assigns into the object it is given and returns it
CleanData(heap, id, keeps) ==
    LET r == CleanFrom(Renamed(heap[id]), 1, keeps)
    IN  [heap |-> [heap EXCEPT ![id] = r.frame],
         raised |-> r.raised,
         ret |-> IF r.raised THEN 0 ELSE id]

----------------------------------------------------------------------------
(* Frames the model draws its inputs from *)

NoFrame == << >>
FrameIds == 1..6

ColumnNames == { << "A", " ", "b" >>, << "a", "_", "b" >>, << "c" >> }
FloatCells == { NaN, Num(2) }
ObjectCells == { NaN, Str(<< " ", "a", " " >>) }

\* columns of r rows as read_csv types them: float64 (numbers, blanks) or object
ColumnsOf(r) ==
    [name : ColumnNames, dtype : {"float64"}, vals : [1..r -> FloatCells]]
    \cup [name : ColumnNames, dtype : {"object"}, vals : [1..r -> ObjectCells]]

AllFrames == UNION { [1..c -> ColumnsOf(r)] : c \in 1..MaxCols, r \in 1..MaxRows }

NRows(frame) == Len(frame[1].vals)

\* the three inputs of main are drawn from these
SampleMixed ==
    << [name |-> << "A", " ", "b" >>, dtype |-> "float64", vals |-> << NaN, Num(2) >>],
       [name |-> << "c" >>, dtype |-> "object",
        vals |-> << Str(<< " ", "a", " " >>), NaN >>] >>
SampleText ==
    << [name |-> << "C" >>, dtype |-> "object", vals |-> << Str(<< "a", " " >>) >>] >>
SampleClash ==
    << [name |-> << "A", " ", "b" >>, dtype |-> "float64", vals |-> << Num(2) >>],
       [name |-> << "a", "_", "b" >>, dtype |-> "float64", vals |-> << NaN >>] >>
SampleFrames == { SampleMixed, SampleText, SampleClash }

----------------------------------------------------------------------------
(* The heap *)

NewId(heap) == CHOOSE id \in FrameIds :
    /\ heap[id] = NoFrame
    /\ \A other \in FrameIds : heap[other] = NoFrame => id <= other

\* a bug: the caller's frame itself is handed on
DfAlias(heap, id) == [heap |-> heap, id |-> id]

\* DataFrame.copy(): a new object with the same columns
DfCopy(heap, id) == [heap |-> [heap EXCEPT ![NewId(heap)] = heap[id]], id |-> NewId(heap)]

\* pd.read_csv(path): a new object holding the parsed file
ReadCsv(heap, frame) == [heap |-> [heap EXCEPT ![NewId(heap)] = frame], id |-> NewId(heap)]

----------------------------------------------------------------------------
(* The SQLite file *)

Files == 1..3
CropTable == "crop_production"
NormalTable == "normal_rainfall"
MonthlyTable == "monthly_rainfall"
OtherTable == "field_notes"
JobTables == { CropTable, NormalTable, MonthlyTable }
TableNames == JobTables \cup { OtherTable }

\* a bug: the second and third target names swapped
TableOfSwapped(i) == CASE i = 1 -> CropTable [] i = 2 -> MonthlyTable [] OTHER -> NormalTable

\* the table the i-th to_sql call names
TableOf(i) == CASE i = 1 -> CropTable [] i = 2 -> NormalTable [] OTHER -> MonthlyTable

NoTable == [present |-> FALSE, cols |-> << >>, rows |-> << >>]
OldTable == [present |-> TRUE, cols |-> << << "o", "l", "d" >> >>,
             rows |-> << << Num(1) >>, << Num(1) >>, << Num(1) >> >>]
PriorStores == [TableNames -> { NoTable, OldTable }]

Null == [k |-> "null", n |-> 0, s |-> << >>]

\* the value to_sql binds for one cell: a missing entry is stored as NULL
SqlValue(cell) == IF IsMissing(cell) THEN Null ELSE cell

\* a bug: the first row is taken for a header and not written
SqlTableSkipFirst(frame) ==
    [present |-> TRUE,
     cols |-> [j \in 1..Len(frame) |-> frame[j].name],
     rows |-> [i \in 1..(NRows(frame) - 1) |->
                 [j \in 1..Len(frame) |-> SqlValue(frame[j].vals[i + 1])]]]

\* the table to_sql(index=False) creates from a frame: one row per frame row
SqlTable(frame) ==
    [present |-> TRUE,
     cols |-> [j \in 1..Len(frame) |-> frame[j].name],
     rows |-> [i \in 1..NRows(frame) |->
                 [j \in 1..Len(frame) |-> SqlValue(frame[j].vals[i])]]]

\* a bug: if_exists='append'
ToSqlAppend(vw, name, frame) ==
    [vw EXCEPT ![name] =
        IF vw[name].present
        THEN [vw[name] EXCEPT !.rows = vw[name].rows \o SqlTable(frame).rows]
        ELSE SqlTable(frame)]

\* to_sql(name, conn, if_exists='replace', index=False): drop, create, insert
ToSqlReplace(vw, name, frame) == [vw EXCEPT ![name] = SqlTable(frame)]

\* a bug: the inserted rows stay in the connection's open transaction
ToSqlLeavesPending(file, vw) == file

\* pandas commits each to_sql on the connection it is given
ToSqlCommitted(file, vw) == vw

\* where a to_sql call can raise, and what it leaves of its table: nothing
\* touched, the table dropped, or the table recreated with its insert undone
FailStages == { "before_drop", "after_drop", "after_create" }
ToSqlFailed(file, name, frame, stage) ==
    CASE stage = "before_drop" -> file
      [] stage = "after_drop" -> [file EXCEPT ![name] = NoTable]
      [] OTHER -> [file EXCEPT ![name] = [SqlTable(frame) EXCEPT !.rows = << >>]]

\* a bug: only the first path is looked up
PathExistsFirstOnly(f) == exists[f] \/ f # 1

\* whether read_csv finds the f-th path
PathExists(f) == exists[f]

----------------------------------------------------------------------------
(* main(): one run of the job *)

NoIds == [i \in Files |-> 0]
EmptyHeap == [id \in FrameIds |-> NoFrame]

Init ==
    /\ keepsNA \in BOOLEAN
    /\ exists \in [Files -> BOOLEAN]
    /\ csv \in [Files -> SampleFrames]
    /\ store \in PriorStores
    /\ storeAtStart = store
    /\ view = store
    /\ frames = EmptyHeap
    /\ raw = NoIds
    /\ cleaned = NoIds
    /\ arg = 0
    /\ argBefore = NoFrame
    /\ ret = 0
    /\ firstResult = NoFrame
    /\ calls = 0
    /\ pc = "read"
    /\ idx = 1
    /\ conn = "none"
    /\ exc = FALSE
    /\ failedAt = 0
    /\ events = << >>
    /\ outcome = "running"
    /\ run = 1
    /\ firstLoad = [run |-> 0, tables |-> store]

\* the step after the idx-th of three: the next data set, or the next phase
Advance(phase) ==
    IF idx < 3 THEN pc' = pc /\ idx' = idx + 1
               ELSE pc' = phase /\ idx' = 1

\* pd.read_csv(path) returns a frame
ReadCsvOk ==
    /\ pc = "read"
    /\ PathExists(idx)
    /\ LET r == ReadCsv(frames, csv[idx])
       IN  /\ frames' = r.heap
           /\ raw' = [raw EXCEPT ![idx] = r.id]
    /\ events' = Append(events, << "read", TableOf(idx) >>)
    /\ Advance("clean")
    /\ UNCHANGED << keepsNA, exists, csv, store, storeAtStart, cleaned, arg, argBefore,
                    ret, firstResult, calls, conn, view, exc, failedAt, outcome, run,
                    firstLoad >>

\* pd.read_csv(path) raises FileNotFoundError: the except clause returns
ReadCsvMissing ==
    /\ pc = "read"
    /\ ~PathExists(idx)
    /\ pc' = "done"
    /\ outcome' = "missing_file"
    /\ UNCHANGED << keepsNA, exists, csv, store, storeAtStart, frames, raw, cleaned, arg,
                    argBefore, ret, firstResult, calls, idx, conn, view, exc, failedAt,
                    events, run, firstLoad >>

\* x_clean = clean_data(x.copy()), the call returning
CleanOk ==
    /\ pc = "clean"
    /\ LET c == DfCopy(frames, raw[idx])
           r == CleanData(c.heap, c.id, keepsNA)
       IN  /\ ~r.raised
           /\ frames' = r.heap
           /\ cleaned' = [cleaned EXCEPT ![idx] = r.ret]
           /\ arg' = c.id
           /\ argBefore' = c.heap[c.id]
           /\ ret' = r.ret
    /\ events' = Append(events, << "clean", TableOf(idx) >>)
    /\ Advance("connect")
    /\ UNCHANGED << keepsNA, exists, csv, store, storeAtStart, raw, firstResult, calls,
                    conn, view, exc, failedAt, outcome, run, firstLoad >>

\* clean_data raises; nothing in main catches it
CleanRaises ==
    /\ pc = "clean"
    /\ LET c == DfCopy(frames, raw[idx])
           r == CleanData(c.heap, c.id, keepsNA)
       IN  /\ r.raised
           /\ frames' = r.heap
           /\ arg' = c.id
           /\ argBefore' = c.heap[c.id]
           /\ ret' = r.ret
    /\ pc' = "done"
    /\ outcome' = "crashed"
    /\ UNCHANGED << keepsNA, exists, csv, store, storeAtStart, raw, cleaned, firstResult,
                    calls, idx, conn, view, exc, failedAt, events, run, firstLoad >>

\* sq.connect(db_path) returns a connection; the with block is entered
ConnectOk ==
    /\ pc = "connect"
    /\ conn' = "open"
    /\ view' = store
    /\ events' = Append(events, << "open", "" >>)
    /\ pc' = "write"
    /\ idx' = 1
    /\ UNCHANGED << keepsNA, exists, csv, store, storeAtStart, frames, raw, cleaned, arg,
                    argBefore, ret, firstResult, calls, exc, failedAt, outcome, run,
                    firstLoad >>

\* sq.connect(db_path) raises: except Exception returns
ConnectFails ==
    /\ pc = "connect"
    /\ pc' = "done"
    /\ outcome' = "store_error"
    /\ UNCHANGED << keepsNA, exists, csv, store, storeAtStart, frames, raw, cleaned, arg,
                    argBefore, ret, firstResult, calls, idx, conn, view, exc, failedAt,
                    events, run, firstLoad >>

\* the idx-th to_sql call returns
ToSqlOk ==
    /\ pc = "write"
    /\ LET vw == ToSqlReplace(view, TableOf(idx), frames[cleaned[idx]])
       IN  /\ store' = ToSqlCommitted(store, vw)
           /\ view' = vw
    /\ events' = Append(events, << "write", TableOf(idx) >>)
    /\ Advance("exit_with")
    /\ UNCHANGED << keepsNA, exists, csv, storeAtStart, frames, raw, cleaned, arg,
                    argBefore, ret, firstResult, calls, conn, exc, failedAt, outcome, run,
                    firstLoad >>

\* the idx-th to_sql call raises: the exception leaves the with block
ToSqlFails ==
    /\ pc = "write"
    /\ \E stage \in FailStages :
          /\ store' = ToSqlFailed(store, TableOf(idx), frames[cleaned[idx]], stage)
          /\ view' = [view EXCEPT ![TableOf(idx)] = store'[TableOf(idx)]]
    /\ exc' = TRUE
    /\ failedAt' = idx
    /\ pc' = "exit_with"
    /\ UNCHANGED << keepsNA, exists, csv, storeAtStart, frames, raw, cleaned, arg,
                    argBefore, ret, firstResult, calls, idx, conn, events, outcome, run,
                    firstLoad >>

\* Connection.__exit__: commit when the block ended normally, roll back when an
\* exception left it; it does not close the connection.  Then main returns,
\* from the except clause or past the last print.
WithExit ==
    /\ pc = "exit_with"
    /\ store' = IF exc THEN store ELSE view
    /\ view' = IF exc THEN store ELSE view
    /\ pc' = "done"
    /\ outcome' = IF exc THEN "store_error" ELSE "complete"
    /\ firstLoad' = IF ~exc /\ firstLoad.run = 0
                    THEN [run |-> run, tables |-> store']
                    ELSE firstLoad
    /\ UNCHANGED << keepsNA, exists, csv, storeAtStart, frames, raw, cleaned, arg,
                    argBefore, ret, firstResult, calls, idx, conn, exc, failedAt, events,
                    run >>

\* after main has returned nothing refers to the connection any more, and the
\* interpreter finalises it at a time of its choosing
Finalize ==
    /\ pc = "done"
    /\ conn = "open"
    /\ conn' = "closed"
    /\ UNCHANGED << keepsNA, exists, csv, store, storeAtStart, frames, raw, cleaned, arg,
                    argBefore, ret, firstResult, calls, pc, idx, view, exc, failedAt,
                    events, outcome, run, firstLoad >>

\* the script is run again, on the same inputs and the file the last run left
StartRun ==
    /\ pc = "done"
    /\ run < MaxRuns
    /\ run' = run + 1
    /\ storeAtStart' = store
    /\ view' = store
    /\ frames' = EmptyHeap
    /\ raw' = NoIds
    /\ cleaned' = NoIds
    /\ arg' = 0
    /\ argBefore' = NoFrame
    /\ ret' = 0
    /\ pc' = "read"
    /\ idx' = 1
    /\ conn' = "none"
    /\ exc' = FALSE
    /\ failedAt' = 0
    /\ events' = << >>
    /\ outcome' = "running"
    /\ UNCHANGED << keepsNA, exists, csv, store, firstResult, calls, firstLoad >>

Next ==
    \/ ReadCsvOk
    \/ ReadCsvMissing
    \/ CleanOk
    \/ CleanRaises
    \/ ConnectOk
    \/ ConnectFails
    \/ ToSqlOk
    \/ ToSqlFails
    \/ WithExit
    \/ Finalize
    \/ StartRun

Spec == Init /\ [][Next]_vars

----------------------------------------------------------------------------
(* clean_data() on its own: applied to a frame, then to its own result *)

InitClean ==
    /\ keepsNA \in BOOLEAN
    /\ \E frame \in AllFrames : frames = [EmptyHeap EXCEPT ![1] = frame]
    /\ exists = [f \in Files |-> TRUE]
    /\ csv = [f \in Files |-> SampleText]
    /\ store = [t \in TableNames |-> NoTable]
    /\ storeAtStart = store
    /\ view = store
    /\ raw = NoIds
    /\ cleaned = NoIds
    /\ arg = 0
    /\ argBefore = NoFrame
    /\ ret = 0
    /\ firstResult = NoFrame
    /\ calls = 0
    /\ pc = "harness"
    /\ idx = 1
    /\ conn = "none"
    /\ exc = FALSE
    /\ failedAt = 0
    /\ events = << >>
    /\ outcome = "running"
    /\ run = 1
    /\ firstLoad = [run |-> 0, tables |-> store]

\* the frame the next call is given: the input, then the first call's result
Target == IF calls = 0 THEN 1 ELSE ret

\* clean_data(df) returns
CallReturns ==
    /\ pc = "harness"
    /\ calls < 2
    /\ LET r == CleanData(frames, Target, keepsNA)
       IN  /\ ~r.raised
           /\ frames' = r.heap
           /\ ret' = r.ret
           /\ firstResult' = IF calls = 0 THEN r.heap[r.ret] ELSE firstResult
    /\ arg' = Target
    /\ argBefore' = frames[Target]
    /\ calls' = calls + 1
    /\ UNCHANGED << keepsNA, exists, csv, store, storeAtStart, raw, cleaned, pc, idx,
                    conn, view, exc, failedAt, events, outcome, run, firstLoad >>

\* clean_data(df) raises
CallRaises ==
    /\ pc = "harness"
    /\ calls < 2
    /\ LET r == CleanData(frames, Target, keepsNA)
       IN  /\ r.raised
           /\ frames' = r.heap
           /\ ret' = r.ret
    /\ arg' = Target
    /\ argBefore' = frames[Target]
    /\ pc' = "raised"
    /\ UNCHANGED << keepsNA, exists, csv, store, storeAtStart, raw, cleaned, firstResult,
                    calls, idx, conn, view, exc, failedAt, events, outcome, run,
                    firstLoad >>

NextClean == CallReturns \/ CallRaises

SpecClean == InitClean /\ [][NextClean]_vars

----------------------------------------------------------------------------
(* Properties *)

IsPrefix(s, t) == Len(s) <= Len(t) /\ \A i \in 1..Len(s) : s[i] = t[i]

\* the one order in which the calls of a run can return
Canon ==
    << << "read", "crop_production" >>, << "read", "normal_rainfall" >>,
       << "read", "monthly_rainfall" >>,
       << "clean", "crop_production" >>, << "clean", "normal_rainfall" >>,
       << "clean", "monthly_rainfall" >>,
       << "open", "" >>,
       << "write", "crop_production" >>, << "write", "normal_rainfall" >>,
       << "write", "monthly_rainfall" >> >>

Returned == ret # 0
TextColumn(j) == ~IsNumericDtype(argBefore[j].dtype)
NumericColumn(j) == IsNumericDtype(argBefore[j].dtype)
ColumnsOfArg == 1..Len(argBefore)
RowsOfArg == 1..NRows(argBefore)

\* C1: once clean_data has returned, in every column it took for text each
\* entry that was missing is the text "Unknown", no entry is missing or stands
\* for a missing entry in another way, and no entry has whitespace at its ends.
C1_TextColumnsUnknownAndStripped ==
    Returned =>
        \A j \in ColumnsOfArg : TextColumn(j) =>
            \A i \in RowsOfArg :
                LET before == argBefore[j].vals[i]
                    after == frames[ret][j].vals[i]
                IN  /\ IsMissing(before) => after = Str(Unknown)
                    /\ after.k = "str"
                    /\ after.s = Strip(after.s)

\* C2: while one of the three paths does not exist, a run never gets past
\* Extract: clean_data is not called, no connection is opened, the file is as
\* it was when the run started, and the run ends reporting the missing file.
C2_MissingInputAborts ==
    (\E f \in Files : ~exists[f]) =>
        /\ pc \in { "read", "done" }
        /\ arg = 0
        /\ cleaned = NoIds
        /\ conn = "none"
        /\ store = storeAtStart
        /\ \A e \in 1..Len(events) : events[e][1] = "read"
        /\ pc = "done" => outcome = "missing_file"

C2_Witness ==
    /\ pc = "done"
    /\ outcome = "missing_file"
    /\ exists[1] /\ exists[2] /\ ~exists[3]
    /\ Len(events) = 2
    /\ store[CropTable].present

\* C3: when main has returned, the connection it opened is closed.
C3_ConnectionClosedOnReturn == pc = "done" => conn # "open"

\* C4: when a write has raised, the tables written before it hold the new
\* contents, the tables after it hold what they held when the run started,
\* and no write after the failing one is made.
C4_NoRollbackNoFurtherWrites ==
    (failedAt # 0 /\ pc \in { "exit_with", "done" }) =>
        /\ \A i \in Files : i < failedAt =>
              store[TableOf(i)] = SqlTable(frames[cleaned[i]])
        /\ \A i \in Files : i > failedAt =>
              store[TableOf(i)] = storeAtStart[TableOf(i)]
        /\ \A i \in Files :
              (\E e \in 1..Len(events) : events[e] = << "write", TableOf(i) >>)
                  <=> i < failedAt

C4_Witness ==
    /\ pc = "done"
    /\ outcome = "store_error"
    /\ failedAt = 2
    /\ storeAtStart[CropTable] = OldTable
    /\ storeAtStart[MonthlyTable] = OldTable
    /\ store[CropTable] # OldTable
    /\ store[MonthlyTable] = OldTable

RowCountsMatch ==
    \A i \in Files :
        /\ store[TableOf(i)].present
        /\ Len(store[TableOf(i)].rows) = NRows(csv[i])

\* C5 as stated: after a complete run the file holds exactly the three
\* tables of the job, each with as many rows as its input.
C5_ExactlyThreeTables ==
    outcome = "complete" =>
        /\ { t \in TableNames : store[t].present } = JobTables
        /\ RowCountsMatch

\* C5: after a complete run the file holds the three tables of the job, each
\* with as many rows as its input, and every other table is as it was when
\* the run started.
C5_ThreeTablesOthersKept ==
    outcome = "complete" =>
        /\ RowCountsMatch
        /\ \A t \in TableNames \ JobTables : store[t] = storeAtStart[t]

C5_Witness ==
    /\ outcome = "complete"
    /\ store[OtherTable] = OldTable
    /\ storeAtStart[CropTable] = OldTable
    /\ \E i \in Files : NRows(csv[i]) = 2

\* C6: a complete run that follows an earlier complete run leaves the three
\* tables with the contents the earlier run left.
C6_SecondRunSameContents ==
    (outcome = "complete" /\ firstLoad.run # 0 /\ firstLoad.run < run) =>
        \A t \in JobTables : store[t] = firstLoad.tables[t]

C6_Witness ==
    /\ outcome = "complete"
    /\ run = 2
    /\ firstLoad.run = 1
    /\ storeAtStart[CropTable].present
    /\ Len(store[CropTable].rows) = 2

\* C7 as stated: the frame handed to clean_data is the same after the call as
\* before it, and the frame returned is another object.
C7_ArgumentUntouched ==
    (arg # 0 /\ Returned) =>
        /\ ret # arg
        /\ Len(frames[arg]) = Len(argBefore)
        /\ \A j \in ColumnsOfArg :
              /\ frames[arg][j].name = argBefore[j].name
              /\ frames[arg][j].vals = argBefore[j].vals

\* C7: clean_data returns the object it was given; main hands it a copy, so
\* the frames read in Extract keep their value and each cleaned frame is an
\* object other than the frame that was read.
C7_ReadFramesKept ==
    /\ Returned => ret = arg
    /\ \A i \in Files : raw[i] # 0 =>
          /\ frames[raw[i]] = csv[i]
          /\ arg # raw[i]
          /\ cleaned[i] # 0 => cleaned[i] # raw[i]

C7_Witness ==
    /\ cleaned[1] # 0
    /\ arg = cleaned[1]
    /\ frames[arg] # argBefore
    /\ frames[raw[1]] = argBefore

\* C8: once clean_data has returned, in every column it took for numeric each
\* entry that was missing is 0 and every other entry is what it was.
C8_NumericColumnsZeroFilled ==
    Returned =>
        \A j \in ColumnsOfArg : NumericColumn(j) =>
            \A i \in RowsOfArg :
                LET before == argBefore[j].vals[i]
                    after == frames[ret][j].vals[i]
                IN  after = IF IsMissing(before) THEN Num(0) ELSE before

C8_Witness ==
    /\ Returned
    /\ calls = 1
    /\ \E j \in ColumnsOfArg :
          /\ NumericColumn(j)
          /\ \A i \in RowsOfArg : IsMissing(argBefore[j].vals[i])
    /\ \E j \in ColumnsOfArg :
          /\ NumericColumn(j)
          /\ \E i \in RowsOfArg : ~IsMissing(argBefore[j].vals[i])

\* C9: clean_data applied to its own result returns a frame with the same
\* column names, the same numeric or textual classification of each column
\* and the same cells.
C9_CleanDataIdempotent ==
    calls = 2 =>
        /\ Len(frames[ret]) = Len(firstResult)
        /\ \A j \in 1..Len(firstResult) :
              /\ frames[ret][j].name = firstResult[j].name
              /\ IsNumericDtype(frames[ret][j].dtype) = IsNumericDtype(firstResult[j].dtype)
              /\ frames[ret][j].vals = firstResult[j].vals

C9_Witness ==
    /\ calls = 2
    /\ \E j \in 1..Len(firstResult) :
          /\ firstResult[j].name = << "a", "_", "b" >>
          /\ \E i \in 1..NRows(firstResult) : firstResult[j].vals[i] = Str(<< "a" >>)
          /\ \E i \in 1..NRows(firstResult) :
                firstResult[j].vals[i] \in { Str(Unknown), Str(NanText) }

\* C10: the calls of a run return in one fixed order: the three reads, the
\* three clean_data calls, one connect, then the writes of crop_production,
\* normal_rainfall and monthly_rainfall.
C10_PhasesInOrder == IsPrefix(events, Canon)

C10_Witness == outcome = "complete" /\ events = Canon

====
